---- MODULE Spec2Model ----
(***************************************************************************)
(* A state-machine model of ssz/sedes/serializable.py: the metaclass that  *)
(* compiles a field list into a schema descriptor (MetaSerializable), the  *)
(* record value built on it (BaseSerializable: construction, item access,  *)
(* equality, memoized hash, copy) and the helpers they call.               *)
(*                                                                         *)
(* Python values are records [kind, val]:                                  *)
(*   kind "int"   val an integer                                           *)
(*   kind "list"  val the sequence of items (a list taken by value)        *)
(*   kind "tuple" val the sequence of items                                *)
(*   kind "ref"   val the heap address of a list object (used where the    *)
(*                identity of a mutable list matters)                      *)
(*   kind "None"                                                           *)
(* Names (fields, attributes, keyword arguments) are strings.              *)
(***************************************************************************)
EXTENDS Integers, Sequences, FiniteSets, TLC

VARIABLES
    classes,    \* the classes that exist, by class id (the ancestors of Serializable first)
    instances,  \* the record instances alive, by the name the caller holds them under
    heap,       \* the caller's list objects, by address
    threads,    \* each thread's position inside __hash__ and its local value
    alloc,      \* the frame of a running _mk_field_attrs call
    result      \* what the last operation was given and what it returned or raised

vars == <<classes, instances, heap, threads, alloc, result>>

-----------------------------------------------------------------------------
(* Bounds of the model.                                                    *)

\* the longest field list handed to the allocator
MaxFields == 2
\* the most positional arguments of one call
MaxArgs == 3
\* the most record types defined on top of Serializable
MaxClasses == 3
\* the most list objects the caller allocates
MaxHeap == 2
\* the longest list the caller builds by appending
MaxLen == 2
\* the number of threads calling hash on one instance
NumThreads == 2

-----------------------------------------------------------------------------
(* Python values.                                                          *)

PyInt(n) == [kind |-> "int", val |-> n]
PyList(items) == [kind |-> "list", val |-> items]
PyTuple(items) == [kind |-> "tuple", val |-> items]
PyRef(addr) == [kind |-> "ref", val |-> addr]
PyNone == [kind |-> "None", val |-> 0]

\* all sequences over S of length at most n
SeqsUpTo(S, n) == UNION {[1..k -> S] : k \in 0..n}

\* the set of the elements of a sequence
SetOf(s) == {s[i] : i \in 1..Len(s)}

-----------------------------------------------------------------------------
(* hash(): the builtin, on the values field tuples hold here.              *)
(* An int hashes to itself except that -1 hashes to -2 (-1 is the C-level  *)
(* error code); a tuple's hash is a function of its length and of its      *)
(* items' hashes alone, kept here as that sequence; a list is unhashable.  *)

HashInt(n) == IF n = -1 THEN -2 ELSE n

HashUnhashable == [kind |-> "TypeError", val |-> 0]

\* an exception raised where a hash was asked for
HashRaised(exception) == [kind |-> exception, val |-> 0]

RECURSIVE PyHash(_)
PyHash(v) ==
    IF v.kind = "int" THEN [kind |-> "int", val |-> HashInt(v.val)]
    ELSE IF v.kind = "tuple" THEN
        LET hs == [i \in 1..Len(v.val) |-> PyHash(v.val[i])]
        IN  IF \E i \in 1..Len(hs) : hs[i].kind = "TypeError"
            THEN HashUnhashable
            ELSE [kind |-> "tuple", val |-> hs]
    ELSE IF v.kind = "None" THEN [kind |-> "None", val |-> 0]
    ELSE HashUnhashable

-----------------------------------------------------------------------------
(* _mk_field_attrs, lines 190-199, as the frame of the running generator:  *)
(* pc "for" is the head of the for loop, "while" the head of the while     *)
(* loop (field = '_' + field), "test" the membership test, "done" the      *)
(* exhausted generator whose yields @to_tuple has collected in out.        *)

AllocIdle ==
    [pc |-> "idle", field_names |-> <<>>, extra_namespace |-> {},
     namespace |-> {}, i |-> 1, field |-> "", out |-> <<>>]

\* line 192: namespace = set(field_names).union(extra_namespace)
AllocStart(field_names, extra_namespace) ==
    [pc |-> "for", field_names |-> field_names, extra_namespace |-> extra_namespace,
     namespace |-> SetOf(field_names) \cup extra_namespace,
     i |-> 1, field |-> "", out |-> <<>>]

\* line 193: for field in field_names
AllocFor(s) ==
    IF s.i <= Len(s.field_names)
    THEN [s EXCEPT !.field = s.field_names[s.i], !.pc = "while"]
    ELSE [s EXCEPT !.pc = "done"]

\* lines 194-195: while True: field = '_' + field
AllocPrefix(s) == [s EXCEPT !.field = "_" \o s.field, !.pc = "test"]

\* the membership test without the namespace.add: a slot already handed out
\* is not remembered
AllocTestNoAdd(s) ==
    IF s.field \notin s.namespace
    THEN [s EXCEPT !.out = Append(s.out, s.field), !.i = s.i + 1, !.pc = "for"]
    ELSE [s EXCEPT !.pc = "while"]

\* lines 196-199: if field not in namespace: namespace.add(field); yield field; break
AllocTest(s) ==
    IF s.field \notin s.namespace
    THEN [s EXCEPT !.namespace = s.namespace \cup {s.field},
                   !.out = Append(s.out, s.field),
                   !.i = s.i + 1, !.pc = "for"]
    ELSE [s EXCEPT !.pc = "while"]

AllocStep(s) ==
    CASE s.pc = "for" -> AllocFor(s)
      [] s.pc = "while" -> AllocPrefix(s)
      [] s.pc = "test" -> AllocTest(s)
      [] OTHER -> s

\* the whole call: the generator run to exhaustion
RECURSIVE AllocRun(_)
AllocRun(s) == IF s.pc = "done" THEN s ELSE AllocRun(AllocStep(s))

mk_field_attrs(field_names, extra_namespace) ==
    AllocRun(AllocStart(field_names, extra_namespace)).out

-----------------------------------------------------------------------------
(* Optional[...] values: None, or a value that is present.                 *)

NoneVal == [some |-> FALSE]
Some(x) == [some |-> TRUE, val |-> x]

-----------------------------------------------------------------------------
(* The schema descriptor and the field-declaration checks.                 *)

Meta(has_fields, fields, container_sedes, field_names, field_attrs) ==
    [has_fields |-> has_fields, fields |-> fields,
     container_sedes |-> container_sedes,
     field_names |-> field_names, field_attrs |-> field_attrs]

\* ssz.utils.get_duplicates: the values that occur more than once
get_duplicates(values) ==
    {values[i] : i \in {i \in 1..Len(values) :
                          \E j \in 1..Len(values) : j # i /\ values[j] = values[i]}}

Letters ==
    {"a", "b", "c", "d", "e", "f", "g", "h", "i", "j", "k", "l", "m",
     "n", "o", "p", "q", "r", "s", "t", "u", "v", "w", "x", "y", "z"}

Digits == {"0", "1", "2", "3", "4", "5", "6", "7", "8", "9"}

\* IDENTIFIER_REGEX ^[^\d\W]\w*\Z on the characters used here: a letter or an
\* underscore, then letters, digits and underscores
is_valid_identifier(value) ==
    /\ Len(value) > 0
    /\ SubSeq(value, 1, 1) \in Letters \cup {"_"}
    /\ \A i \in 2..Len(value) : SubSeq(value, i, i) \in Letters \cup Digits \cup {"_"}

\* _validate_field_names: "ok", or the TypeError it raises
validate_field_names(field_names) ==
    IF get_duplicates(field_names) # {}
    THEN "TypeError: fields are duplicated"
    ELSE IF {f \in SetOf(field_names) : ~is_valid_identifier(f)} # {}
    THEN "TypeError: not valid python identifiers"
    ELSE "ok"

\* Container(fields) raises ValidationError for an empty field list and for
\* one with a duplicate name
ContainerRaises(fields) ==
    \/ Len(fields) = 0
    \/ get_duplicates([i \in 1..Len(fields) |-> fields[i][1]]) # {}

\* the Container object built by the class with id owner from fields
Container(owner, fields) == [owner |-> owner, fields |-> fields]

\* _mk_field_props: one property per field name, reading the field's attr
mk_field_props(field_names, field_attrs) ==
    [f \in SetOf(field_names) |->
        field_attrs[CHOOSE i \in 1..Len(field_names) :
                        /\ field_names[i] = f
                        /\ \A j \in (i + 1)..Len(field_names) : field_names[j] # f]]

-----------------------------------------------------------------------------
(* Classes. A class is [is_meta, bases, mro, dict, props, meta]: whether   *)
(* it is an instance of MetaSerializable, its direct bases (class ids),    *)
(* its __mro__ (class ids, itself first), the keys of its own __dict__,    *)
(* the field properties among them (name -> attribute read) and its _meta. *)

\* the class ids of BaseSerializable.__mro__, from object up
ObjectId == 1
AbcContainerId == 2
IterableId == 3
SizedId == 4
CollectionId == 5
ReversibleId == 6
SequenceId == 7
BaseSerializableId == 8

\* a class that MetaSerializable did not create
PlainClass(bases, mro, dict) ==
    [is_meta |-> FALSE, bases |-> bases, mro |-> mro, dict |-> dict,
     props |-> <<>>, meta |-> NoneVal]

\* what every class created by abc.ABCMeta has in its __dict__
AbcDict == {"__module__", "__doc__", "__abstractmethods__", "_abc_impl"}

ObjectClass ==
    PlainClass(<<>>, <<ObjectId>>,
               {"__class__", "__delattr__", "__dir__", "__doc__", "__eq__",
                "__format__", "__ge__", "__getattribute__", "__getstate__",
                "__gt__", "__hash__", "__init__", "__init_subclass__", "__le__",
                "__lt__", "__ne__", "__new__", "__reduce__", "__reduce_ex__",
                "__repr__", "__setattr__", "__sizeof__", "__str__",
                "__subclasshook__"})

AbcContainerClass ==
    PlainClass(<<ObjectId>>, <<AbcContainerId, ObjectId>>,
               AbcDict \cup {"__slots__", "__subclasshook__", "__class_getitem__",
                             "__contains__"})

IterableClass ==
    PlainClass(<<ObjectId>>, <<IterableId, ObjectId>>,
               AbcDict \cup {"__slots__", "__subclasshook__", "__class_getitem__",
                             "__iter__"})

SizedClass ==
    PlainClass(<<ObjectId>>, <<SizedId, ObjectId>>,
               AbcDict \cup {"__slots__", "__subclasshook__", "__len__"})

CollectionClass ==
    PlainClass(<<SizedId, IterableId, AbcContainerId>>,
               <<CollectionId, SizedId, IterableId, AbcContainerId, ObjectId>>,
               AbcDict \cup {"__slots__", "__subclasshook__"})

ReversibleClass ==
    PlainClass(<<IterableId>>, <<ReversibleId, IterableId, ObjectId>>,
               AbcDict \cup {"__slots__", "__subclasshook__", "__reversed__"})

\* collections.Sequence
SequenceClass ==
    PlainClass(<<ReversibleId, CollectionId>>,
               <<SequenceId, ReversibleId, CollectionId, SizedId, IterableId,
                 AbcContainerId, ObjectId>>,
               AbcDict \cup {"__slots__", "__getitem__", "__iter__", "__contains__",
                             "__reversed__", "index", "count"})

\* the members the body of BaseSerializable defines, and what the class
\* creation adds
BaseSerializableDict ==
    AbcDict \cup
    {"_cached_ssz", "__init__", "as_dict", "__iter__", "__getitem__", "__len__",
     "__eq__", "__getstate__", "_hash_cache", "__hash__", "copy", "__copy__",
     "__deepcopy__", "root", "__dict__", "__weakref__"}

BaseSerializableClass ==
    PlainClass(<<SequenceId>>,
               <<BaseSerializableId, SequenceId, ReversibleId, CollectionId, SizedId,
                 IterableId, AbcContainerId, ObjectId>>,
               BaseSerializableDict)

\* the classes that exist before Serializable is defined
BaseClasses ==
    <<ObjectClass, AbcContainerClass, IterableClass, SizedClass, CollectionClass,
      ReversibleClass, SequenceClass, BaseSerializableClass>>

\* base.__mro__, as the set of the classes in it
Mro(clss, c) == SetOf(clss[c].mro)

\* the merge of the C3 linearisation, behind the part acc merged so far: the
\* first head that is in no tail, again and again; no such head is the
\* failure of the linearisation
RECURSIVE C3Merge(_, _)
C3Merge(seqs, acc) ==
    LET live == SelectSeq(seqs, LAMBDA q : Len(q) > 0)
        tails == UNION {SetOf(Tail(live[j])) : j \in 1..Len(live)}
        good == {i \in 1..Len(live) : Head(live[i]) \notin tails}
    IN  IF Len(live) = 0 THEN [ok |-> TRUE, mro |-> acc]
        ELSE IF good = {} THEN [ok |-> FALSE, mro |-> <<>>]
        ELSE LET head == Head(live[CHOOSE i \in good : \A k \in good : i <= k])
             IN  C3Merge([k \in 1..Len(live) |->
                            IF Head(live[k]) = head THEN Tail(live[k]) ELSE live[k]],
                         Append(acc, head))

\* the __mro__ type.__new__ computes for a class with these bases, behind the
\* class itself
Linearise(clss, bases) ==
    C3Merge([i \in 1..Len(bases) |-> clss[bases[i]].mro] \o <<bases>>, <<>>)

\* _get_class_namespace: the keys of cls.__dict__ (no class here has __slots__
\* entries)
get_class_namespace(clss, c) == clss[c].dict

\* what abc.ABCMeta.__new__ makes of the namespace it is given: __qualname__
\* is consumed, the abc bookkeeping members are added, and __dict__ and
\* __weakref__ where no class along the bases has them already
TypeNewDict(clss, bases, namespace) ==
    LET inherited == UNION {get_class_namespace(clss, p) :
                              p \in UNION {Mro(clss, bases[i]) : i \in 1..Len(bases)}}
    IN  (namespace \ {"__qualname__"})
            \cup {"__doc__", "__abstractmethods__", "_abc_impl"}
            \cup ({"__dict__", "__weakref__"} \ inherited)

\* lines 318-323: the names of the namespace and of every class in the mro of
\* every base
reserved_namespace(clss, bases, namespace) ==
    namespace \cup UNION {get_class_namespace(clss, p) :
                            p \in UNION {Mro(clss, bases[i]) : i \in 1..Len(bases)}}

\* line 327: namespace.keys() & set(field_props.keys())
PropsOverlap(namespace, field_names, field_attrs) ==
    namespace \cap DOMAIN mk_field_props(field_names, field_attrs) # {}

Raised(error) == [ok |-> FALSE, error |-> error]

\* super().__new__(mcls, name, bases, namespace): the class, or the TypeError
\* of a base list that has no linearisation (a class named twice, an ancestor
\* before its subclass)
TypeNew(clss, bases, namespace, props, meta) ==
    LET type_bases == IF Len(bases) = 0 THEN <<ObjectId>> ELSE bases
        linear == Linearise(clss, type_bases)
    IN  IF ~linear.ok
        THEN Raised("TypeError: Cannot create a consistent method resolution order")
        ELSE [ok |-> TRUE,
              cls |-> [is_meta |-> TRUE, bases |-> type_bases,
                       mro |-> <<Len(clss) + 1>> \o linear.mro,
                       dict |-> TypeNewDict(clss, type_bases, namespace),
                       props |-> props, meta |-> meta]]

\* lines 306-351: the class with fields and a sedes object
MetaNewWithFields(clss, bases, namespace, fields, sedes) ==
    IF Len(fields) = 0
    THEN Raised("Exception: Invariant: number of fields")
    ELSE
    LET field_names == [i \in 1..Len(fields) |-> fields[i][1]]
        valid == validate_field_names(field_names)
        field_attrs == mk_field_attrs(field_names,
                                      reserved_namespace(clss, bases, namespace))
    IN  IF valid # "ok" THEN Raised(valid)
        ELSE IF PropsOverlap(namespace, field_names, field_attrs)
        THEN Raised("Exception: Invariant: field property names overlap")
        ELSE TypeNew(clss, bases, namespace \cup SetOf(field_names) \cup {"_meta"},
                     mk_field_props(field_names, field_attrs),
                     Meta(TRUE, Some(fields), Some(sedes),
                          Some(field_names), Some(field_attrs)))

\* lines 285-304: the class without fields
MetaNewWithoutFields(clss, bases, namespace) ==
    TypeNew(clss, bases, namespace \cup {"_meta"}, <<>>,
            Meta(FALSE, NoneVal, NoneVal, NoneVal, NoneVal))

\* lines 267-283: no fields declared
Inherit(clss, bases, namespace, bases_with_fields) ==
    IF Len(bases_with_fields) = 0
    THEN MetaNewWithoutFields(clss, bases, namespace)
    ELSE IF Len(bases_with_fields) = 1
    THEN MetaNewWithFields(clss, bases, namespace,
                           clss[bases_with_fields[1]].meta.fields.val,
                           clss[bases_with_fields[1]].meta.container_sedes.val)
    ELSE Raised("TypeError: multiple Serializable parents with fields")

\* MetaSerializable.__new__(mcls, name, bases, namespace). The namespace is
\* given as the names of the members the class body declares besides fields
\* and as the value of fields (NoneVal when the body declares none).
MetaNew(clss, bases, members, fields_decl) ==
    LET namespace == members \cup {"__module__", "__qualname__"}
        declares_fields == fields_decl.some
        serializable_bases == SelectSeq(bases, LAMBDA b : clss[b].is_meta)
        bases_with_fields ==
            SelectSeq(serializable_bases, LAMBDA b : clss[b].meta.has_fields)
    IN  IF declares_fields
        THEN IF ContainerRaises(fields_decl.val)
             THEN Raised("TypeError: ValidationError")
             ELSE MetaNewWithFields(clss, bases, namespace, fields_decl.val,
                                    Container(Len(clss) + 1, fields_decl.val))
        ELSE Inherit(clss, bases, namespace, bases_with_fields)

\* lines 390-394: class Serializable(BaseSerializable, metaclass=MetaSerializable)
InitClasses ==
    Append(BaseClasses, MetaNew(BaseClasses, <<BaseSerializableId>>, {}, NoneVal).cls)

\* the class id of Serializable
SerializableId == Len(InitClasses)

-----------------------------------------------------------------------------
(* The values the variables hold while the part of the program they belong *)
(* to is not running.                                                      *)

NoInstances == <<>>
NoThreads == <<>>
NoResult == [op |-> "none"]

\* the caller is done with what the last operation gave it and moves on
Discard ==
    /\ result.op # "none"
    /\ result' = NoResult
    /\ UNCHANGED <<classes, instances, heap, threads, alloc>>

-----------------------------------------------------------------------------
(* SpecAlloc: _mk_field_attrs run step by step on every field list and     *)
(* reserved namespace of the pools.                                        *)

AllocFieldNames == {"a", "_a", "b"}
AllocReserved == {"_a", "__a", "_b"}

InitAlloc ==
    /\ classes = InitClasses
    /\ instances = NoInstances
    /\ heap = <<>>
    /\ threads = NoThreads
    /\ alloc = AllocIdle
    /\ result = NoResult

AllocCall(field_names, extra_namespace) ==
    /\ alloc.pc \in {"idle", "done"}
    /\ alloc' = AllocStart(field_names, extra_namespace)
    /\ UNCHANGED <<classes, instances, heap, threads, result>>

AllocForStep ==
    /\ alloc.pc = "for"
    /\ alloc' = AllocStep(alloc)
    /\ UNCHANGED <<classes, instances, heap, threads, result>>

AllocPrefixStep ==
    /\ alloc.pc = "while"
    /\ alloc' = AllocStep(alloc)
    /\ UNCHANGED <<classes, instances, heap, threads, result>>

AllocTestStep ==
    /\ alloc.pc = "test"
    /\ alloc' = AllocStep(alloc)
    /\ UNCHANGED <<classes, instances, heap, threads, result>>

AllocRunning == AllocForStep \/ AllocPrefixStep \/ AllocTestStep

NextAlloc ==
    \/ \E field_names \in SeqsUpTo(AllocFieldNames, MaxFields),
          extra_namespace \in SUBSET AllocReserved :
            AllocCall(field_names, extra_namespace)
    \/ AllocForStep
    \/ AllocPrefixStep
    \/ AllocTestStep

\* a call that has started keeps running: nothing in the generator waits
SpecAlloc == InitAlloc /\ [][NextAlloc]_vars /\ WF_vars(AllocRunning)

\* k underscores
RECURSIVE Underscores(_)
Underscores(k) == IF k = 0 THEN "" ELSE "_" \o Underscores(k - 1)

AllocReturned ==
    /\ alloc.pc = "done"
    /\ Len(alloc.out) = Len(alloc.field_names)
    /\ \A i \in 1..Len(alloc.out) :
        /\ \E k \in 1..(Len(alloc.out[i]) - Len(alloc.field_names[i])) :
              alloc.out[i] = Underscores(k) \o alloc.field_names[i]
        /\ alloc.out[i] \notin alloc.extra_namespace
        /\ alloc.out[i] \notin SetOf(alloc.field_names)
        /\ \A j \in 1..Len(alloc.out) : j # i => alloc.out[j] # alloc.out[i]

\* C9: every call of the namespace allocator terminates, and what it returns
\* is one slot per field, in field order, each the field name behind one or
\* more underscores, the slots pairwise distinct and none of them a reserved
\* name or a field name.
C9_AllocatorSlots ==
    /\ [](alloc.pc = "done" => AllocReturned)
    /\ (alloc.pc \in {"for", "while", "test"}) ~> (alloc.pc = "done")

\* a finished call on two fields where the first candidate of a field was
\* taken and the prefixing was repeated
C9_Witness ==
    /\ alloc.pc = "done"
    /\ Len(alloc.field_names) = 2
    /\ alloc.extra_namespace # {}
    /\ \E i \in 1..Len(alloc.out) : alloc.out[i] = "___" \o alloc.field_names[i]

-----------------------------------------------------------------------------
(* SpecMeta: class statements run through MetaSerializable.__new__.        *)

\* the most direct bases of one class statement
MaxBases == 2

\* the members a class body declares besides fields
MemberPool == {"a"}

\* the values a class body gives to fields
FieldDeclPool ==
    {<<>>,
     <<<<"a", "uint8">>>>,
     <<<<"a", "uint8">>, <<"meta", "boolean">>>>,
     <<<<"a", "uint8">>, <<"a", "boolean">>>>,
     <<<<"1a", "uint8">>>>}

\* the classes a class statement names as bases: object, BaseSerializable,
\* Serializable and the record types defined so far
BasePool(clss) == {ObjectId} \cup (BaseSerializableId..Len(clss))

\* the base lists type.__new__ accepts: those that have a linearisation
LegalBases(clss) ==
    {bases \in SeqsUpTo(BasePool(clss), MaxBases) :
        /\ Len(bases) > 0
        /\ Linearise(clss, bases).ok}

InitMeta ==
    /\ classes = InitClasses
    /\ instances = NoInstances
    /\ heap = <<>>
    /\ threads = NoThreads
    /\ alloc = AllocIdle
    /\ result = NoResult

\* class <new>(bases, metaclass=MetaSerializable): <members>; fields = ...
DefineClass(bases, members, fields_decl) ==
    /\ result.op = "none"
    /\ Len(classes) < Len(InitClasses) + MaxClasses
    /\ LET out == MetaNew(classes, bases, members, fields_decl)
       IN  /\ classes' = IF out.ok THEN Append(classes, out.cls) ELSE classes
           /\ result' = [op |-> "class", bases |-> bases, members |-> members,
                         fields_decl |-> fields_decl, ok |-> out.ok,
                         error |-> IF out.ok THEN "" ELSE out.error,
                         cls |-> IF out.ok THEN Len(classes) + 1 ELSE 0,
                         classes_before |-> Len(classes)]
    /\ UNCHANGED <<instances, heap, threads, alloc>>

NextMeta ==
    \/ Discard
    \/ /\ result.op = "none"
       /\ Len(classes) < Len(InitClasses) + MaxClasses
       /\ \E bases \in LegalBases(classes), members \in SUBSET MemberPool,
             fields_decl \in {NoneVal} \cup {Some(f) : f \in FieldDeclPool} :
              DefineClass(bases, members, fields_decl)

SpecMeta == InitMeta /\ [][NextMeta]_vars

\* the direct ancestors of the class statement that have fields
DirectFieldBases ==
    {i \in 1..Len(result.bases) :
        /\ classes[result.bases[i]].is_meta
        /\ classes[result.bases[i]].meta.has_fields}

\* C5: a class statement that declares no fields fails with the ambiguity
\* error and creates no type when two or more direct ancestors have fields;
\* with exactly one it creates a type with has_fields true whose fields and
\* container sedes are that ancestor's own; with none it creates a type with
\* has_fields false and no fields, sedes, field_names or field_attrs.
C5_InheritFields ==
    (result.op = "class" /\ ~result.fields_decl.some) =>
        /\ Cardinality(DirectFieldBases) >= 2 =>
              /\ ~result.ok
              /\ result.error = "TypeError: multiple Serializable parents with fields"
              /\ Len(classes) = result.classes_before
        /\ Cardinality(DirectFieldBases) = 1 =>
              /\ result.ok
              /\ Len(classes) = result.classes_before + 1
              /\ \A i \in DirectFieldBases :
                    /\ classes[result.cls].meta.has_fields
                    /\ classes[result.cls].meta.fields =
                          classes[result.bases[i]].meta.fields
                    /\ classes[result.cls].meta.container_sedes =
                          classes[result.bases[i]].meta.container_sedes
        /\ Cardinality(DirectFieldBases) = 0 =>
              /\ result.ok
              /\ classes[result.cls].meta = Meta(FALSE, NoneVal, NoneVal, NoneVal, NoneVal)

\* the names of a declared field list
DeclNames(fields) == [i \in 1..Len(fields) |-> fields[i][1]]

\* C6: a class statement whose field list is not empty and has unique, valid
\* names succeeds whatever members it declares, its descriptor has as many
\* field_names and field_attrs as fields, position by position, and the
\* exception for a property name meeting a declared member is never raised.
C6_CompileSucceeds ==
    (/\ result.op = "class"
     /\ result.fields_decl.some
     /\ Len(result.fields_decl.val) > 0
     /\ validate_field_names(DeclNames(result.fields_decl.val)) = "ok") =>
        /\ result.ok
        /\ LET meta == classes[result.cls].meta
           IN  /\ meta.has_fields
               /\ meta.fields.val = result.fields_decl.val
               /\ Len(meta.field_names.val) = Len(meta.fields.val)
               /\ Len(meta.field_attrs.val) = Len(meta.fields.val)
               /\ \A i \in 1..Len(meta.fields.val) :
                     /\ meta.field_names.val[i] = meta.fields.val[i][1]
                     /\ classes[result.cls].props[meta.field_names.val[i]] =
                           meta.field_attrs.val[i]

-----------------------------------------------------------------------------
(* Record values. An instance is [cls, dict]: its class id and its         *)
(* __dict__, attribute name -> value. Keyword arguments are functions from *)
(* names to values; positional arguments are sequences.                    *)

Min(a, b) == IF a < b THEN a ELSE b

\* arg_names[:n] and arg_names[n:]
Prefix(names, n) == SubSeq(names, 1, Min(n, Len(names)))
Suffix(names, n) == SubSeq(names, n + 1, Len(names))

\* validate_args_and_kwargs: "ok", or the exception it raises
validate_args_and_kwargs(args, kwargs, arg_names) ==
    LET needed_arg_names == SetOf(Suffix(arg_names, Len(args)))
        used_arg_names == SetOf(Prefix(arg_names, Len(args)))
    IN  IF get_duplicates(arg_names) # {}
        THEN "ValueError: Duplicate argument names"
        ELSE IF used_arg_names \cap DOMAIN kwargs # {}
        THEN "TypeError: Duplicate kwargs"
        ELSE IF DOMAIN kwargs \ SetOf(arg_names) # {}
        THEN "TypeError: Unknown kwargs"
        ELSE IF needed_arg_names \ DOMAIN kwargs # {}
        THEN "TypeError: Missing kwargs"
        ELSE "ok"

\* merge_kwargs_to_args, after its validation has passed: the positional
\* values, then the named value of every name the positions did not reach
merge_kwargs_to_args(args, kwargs, arg_names) ==
    LET needed_arg_names == Suffix(arg_names, Len(args))
    IN  args \o [i \in 1..Len(needed_arg_names) |-> kwargs[needed_arg_names[i]]]

\* merge_args_to_kwargs: the named values, then each positional value under
\* the name of its position (zip stops at the shorter), a later pair
\* replacing an earlier one in the dict
merge_args_to_kwargs(args, kwargs, arg_names) ==
    LET n == Min(Len(args), Len(arg_names))
        positional == SetOf(Prefix(arg_names, n))
    IN  [name \in DOMAIN kwargs \cup positional |->
            IF name \in positional
            THEN args[CHOOSE i \in 1..n :
                        /\ arg_names[i] = name
                        /\ \A j \in (i + 1)..n : arg_names[j] # name]
            ELSE kwargs[name]]

\* make_immutable: a list becomes the tuple of its items made immutable; any
\* other value is returned as it is. A list is given by value (kind "list")
\* or as the object at a heap address (kind "ref").
RECURSIVE make_immutable(_, _)
make_immutable(h, value) ==
    IF value.kind = "list"
    THEN PyTuple([i \in 1..Len(value.val) |-> make_immutable(h, value.val[i])])
    ELSE IF value.kind = "ref"
    THEN PyTuple([i \in 1..Len(h[value.val]) |-> make_immutable(h, h[value.val][i])])
    ELSE value

\* x or (): the value of an Optional sequence, () for None
OrEmpty(opt) == IF opt.some THEN opt.val ELSE <<>>

\* lines 105-106: setattr(self, attr, make_immutable(value)) over the zip
SetAttrs(h, field_values, field_attrs) ==
    LET n == Min(Len(field_values), Len(field_attrs))
    IN  [attr \in SetOf(Prefix(field_attrs, n)) |->
            make_immutable(h, field_values[
                CHOOSE i \in 1..n :
                    /\ field_attrs[i] = attr
                    /\ \A j \in (i + 1)..n : field_attrs[j] # attr])]

\* the positions in type(obj).__mro__ of the classes that define name
Definers(clss, obj, name) ==
    {i \in 1..Len(clss[obj.cls].mro) :
        name \in get_class_namespace(clss, clss[obj.cls].mro[i])}

\* getattr(obj, name): the first class of type(obj).__mro__ that defines name
\* decides. A field property there reads its attribute (operator.attrgetter,
\* itself a getattr); else the instance's own attribute comes first, then
\* the class member (the class attributes _hash_cache and _cached_ssz are
\* None, any other member is given back as its name); else AttributeError
RECURSIVE GetAttr(_, _, _)
GetAttr(clss, obj, name) ==
    LET definers == Definers(clss, obj, name)
        owner == clss[obj.cls].mro[CHOOSE i \in definers : \A j \in definers : i <= j]
    IN  IF definers # {} /\ name \in DOMAIN clss[owner].props
        THEN GetAttr(clss, obj, clss[owner].props[name])
        ELSE IF name \in DOMAIN obj.dict
        THEN [ok |-> TRUE, val |-> obj.dict[name]]
        ELSE IF definers = {}
        THEN Raised("AttributeError")
        ELSE IF name \in {"_hash_cache", "_cached_ssz"}
        THEN [ok |-> TRUE, val |-> PyNone]
        ELSE [ok |-> TRUE, val |-> [kind |-> "member", val |-> name]]

\* self._meta, by attribute lookup on the instance: an attribute of the
\* instance named _meta comes first (the class member is no data descriptor),
\* and what is stored there has none of Meta's attributes; else the
\* descriptor of the instance's class, which has its own whenever
\* MetaSerializable created it (lines 301, 348); no other class here has one
SelfMeta(clss, obj) ==
    IF "_meta" \in DOMAIN obj.dict THEN Raised("AttributeError")
    ELSE IF ~clss[obj.cls].is_meta THEN Raised("AttributeError")
    ELSE [ok |-> TRUE, meta |-> clss[obj.cls].meta]

\* the count check left out: positional values beyond the last field are
\* dropped by the zip
InitNoCountCheck(clss, h, cls, args, kwargs) ==
    LET arg_names == OrEmpty(clss[cls].meta.field_names)
        valid == validate_args_and_kwargs(args, kwargs, arg_names)
    IN  IF valid # "ok" THEN Raised(valid)
        ELSE [ok |-> TRUE,
              obj |-> [cls |-> cls,
                       dict |-> SetAttrs(h, merge_kwargs_to_args(args, kwargs, arg_names),
                                         OrEmpty(clss[cls].meta.field_attrs))]]

\* cls(args, kwargs), BaseSerializable.__init__: the new instance, or the
\* exception raised
NewInstance(clss, h, cls, args, kwargs) ==
    LET self == [cls |-> cls, dict |-> <<>>]
        arg_names == OrEmpty(SelfMeta(clss, self).meta.field_names)
        valid == validate_args_and_kwargs(args, kwargs, arg_names)
        field_values == merge_kwargs_to_args(args, kwargs, arg_names)
    IN  IF ~SelfMeta(clss, self).ok THEN Raised("AttributeError")
        ELSE IF valid # "ok" THEN Raised(valid)
        ELSE IF Len(field_values) # Len(arg_names)
        THEN Raised("TypeError: Argument count mismatch")
        ELSE [ok |-> TRUE,
              obj |-> [cls |-> cls,
                       dict |-> SetAttrs(h, field_values,
                                         OrEmpty(SelfMeta(clss, self).meta.field_attrs))]]

\* __iter__: getattr(self, attr) for every attr of self._meta.field_attrs;
\* [ok, val], or the exception raised
IterValues(clss, obj) ==
    IF ~SelfMeta(clss, obj).ok THEN Raised("AttributeError")
    ELSE IF ~SelfMeta(clss, obj).meta.field_attrs.some
    THEN Raised("TypeError: 'NoneType' object is not iterable")
    ELSE LET field_attrs == SelfMeta(clss, obj).meta.field_attrs.val
         IN  [ok |-> TRUE,
              val |-> [i \in 1..Len(field_attrs) |-> obj.dict[field_attrs[i]]]]

\* as_dict: dict(zip(self._meta.field_names, self)); [ok, val], or the
\* exception raised
as_dict(clss, obj) ==
    IF ~SelfMeta(clss, obj).ok THEN Raised("AttributeError")
    ELSE IF ~IterValues(clss, obj).ok THEN IterValues(clss, obj)
    ELSE LET field_names == SelfMeta(clss, obj).meta.field_names.val
             values == IterValues(clss, obj).val
         IN  [ok |-> TRUE,
              val |-> [name \in SetOf(field_names) |->
                         values[CHOOSE i \in 1..Len(field_names) :
                                  /\ field_names[i] = name
                                  /\ \A j \in (i + 1)..Len(field_names) :
                                        field_names[j] # name]]]

\* self._hash_cache: the instance attribute once written, else the class
\* attribute None
HashCache(obj) ==
    IF "_hash_cache" \in DOMAIN obj.dict THEN obj.dict["_hash_cache"] ELSE PyNone

\* line 150: hash(tuple(self)): the hash, or the exception of tuple(self) or
\* of hash() as a value of kind "AttributeError" or "TypeError"
HashOfSelf(clss, obj) ==
    IF ~IterValues(clss, obj).ok
    THEN HashRaised(IF IterValues(clss, obj).error = "AttributeError"
                    THEN "AttributeError" ELSE "TypeError")
    ELSE PyHash(PyTuple(IterValues(clss, obj).val))

\* self._hash_cache = value
SetHashCache(obj, value) ==
    [obj EXCEPT !.dict = [attr \in DOMAIN obj.dict \cup {"_hash_cache"} |->
                             IF attr = "_hash_cache" THEN value ELSE obj.dict[attr]]]

\* __hash__ run without interruption: what it returns or raises, and the
\* instance afterwards
HashResult(clss, obj) ==
    IF HashCache(obj) # PyNone
    THEN [ok |-> TRUE, val |-> HashCache(obj), obj |-> obj]
    ELSE IF ~IterValues(clss, obj).ok
    THEN [ok |-> FALSE, error |-> IterValues(clss, obj).error, obj |-> obj]
    ELSE IF HashOfSelf(clss, obj).kind = "TypeError"
    THEN [ok |-> FALSE, error |-> "TypeError: unhashable type", obj |-> obj]
    ELSE [ok |-> TRUE, val |-> HashOfSelf(clss, obj),
          obj |-> SetHashCache(obj, HashOfSelf(clss, obj))]

\* copy.deepcopy of a field value: a value equal to the one given (new list
\* objects, which are held by value here)
deepcopy(value) == value

\* lines 155-161
missing_overrides(args, kwargs, field_names) ==
    (SetOf(field_names) \ DOMAIN kwargs) \ SetOf(Prefix(field_names, Len(args)))

\* lines 162-167
unchanged_kwargs(clss, obj, args, kwargs) ==
    IF ~SelfMeta(clss, obj).ok THEN Raised("AttributeError")
    ELSE IF ~as_dict(clss, obj).ok THEN as_dict(clss, obj)
    ELSE LET missing == missing_overrides(args, kwargs,
                                          SelfMeta(clss, obj).meta.field_names.val)
             d == as_dict(clss, obj).val
         IN  [ok |-> TRUE, val |-> [key \in DOMAIN d \cap missing |-> deepcopy(d[key])]]

\* line 168: dict(**unchanged_kwargs, **kwargs); the two never share a key
combined_kwargs(unchanged, kwargs) ==
    [key \in DOMAIN unchanged \cup DOMAIN kwargs |->
        IF key \in DOMAIN kwargs THEN kwargs[key] ELSE unchanged[key]]

\* copy(self, args, kwargs): the new instance, or the exception raised
Copied(clss, h, obj, args, kwargs) ==
    LET unchanged == unchanged_kwargs(clss, obj, args, kwargs)
    IN  IF ~unchanged.ok THEN Raised(unchanged.error)
        ELSE NewInstance(clss, h, obj.cls, <<>>,
                         merge_args_to_kwargs(args,
                                              combined_kwargs(unchanged.val, kwargs),
                                              SelfMeta(clss, obj).meta.field_names.val))

\* __getitem__(self, index) for an int (below zero counts from the end), a
\* slice start:stop with 0 <= start, stop, a str, or anything else
GetItem(clss, obj, index) ==
    LET field_attrs == SelfMeta(clss, obj).meta.field_attrs.val
        n == Len(field_attrs)
    IN  IF index.kind = "str"
        THEN GetAttr(clss, obj, index.val)
        ELSE IF index.kind \notin {"int", "slice"}
        THEN Raised("IndexError: Unsupported type for __getitem__")
        ELSE IF ~SelfMeta(clss, obj).ok
        THEN Raised("AttributeError")
        ELSE IF ~SelfMeta(clss, obj).meta.field_attrs.some
        THEN Raised("TypeError: 'NoneType' object is not subscriptable")
        ELSE IF index.kind = "int"
        THEN IF index.val >= n \/ index.val < -n
             THEN Raised("IndexError")
             ELSE GetAttr(clss, obj,
                          field_attrs[IF index.val < 0 THEN index.val + n + 1
                                      ELSE index.val + 1])
        ELSE [ok |-> TRUE,
              val |-> PyTuple([i \in 1..(Min(index.val[2], n) - Min(index.val[1], n)) |->
                                 obj.dict[field_attrs[Min(index.val[1], n) + i]]])]

\* __eq__: self.__class__ is other.__class__ and hash(self) == hash(other);
\* the hashes are not taken when the classes differ, hash(self) is taken (and
\* memoized) before hash(other)
EqResult(clss, a, b) ==
    IF a.cls # b.cls
    THEN [ok |-> TRUE, val |-> FALSE, left |-> a, right |-> b]
    ELSE IF ~HashResult(clss, a).ok
    THEN [ok |-> FALSE, error |-> HashResult(clss, a).error, left |-> a, right |-> b]
    ELSE IF ~HashResult(clss, b).ok
    THEN [ok |-> FALSE, error |-> HashResult(clss, b).error,
          left |-> HashResult(clss, a).obj, right |-> b]
    ELSE [ok |-> TRUE,
          val |-> HashResult(clss, a).val = HashResult(clss, b).val,
          left |-> HashResult(clss, a).obj, right |-> HashResult(clss, b).obj]

-----------------------------------------------------------------------------
(* The record types the instance specifications use:                       *)
(*   class A(Serializable): fields = [("a", uint8), ("b", boolean)]        *)
(*   class B(Serializable): fields = [("a", uint8), ("b", boolean)]        *)
(*   class M(BaseSerializable, metaclass=MetaSerializable):                *)
(*       fields = [("a", uint8), ("meta", boolean)]                        *)

ABFields == <<<<"a", "uint8">>, <<"b", "boolean">>>>

ClassesA ==
    Append(InitClasses, MetaNew(InitClasses, <<SerializableId>>, {}, Some(ABFields)).cls)

ClassesAB ==
    Append(ClassesA, MetaNew(ClassesA, <<SerializableId>>, {}, Some(ABFields)).cls)

MFields == <<<<"a", "uint8">>, <<"meta", "boolean">>>>

ClassesABM ==
    Append(ClassesAB,
           MetaNew(ClassesAB, <<BaseSerializableId>>, {}, Some(MFields)).cls)

ClassA == Len(ClassesA)
ClassB == Len(ClassesAB)
ClassM == Len(ClassesABM)

\* the field values of the instances of M
MVals == {PyInt(1), PyInt(2)}

\* all keyword-argument dicts with names among names and values among vals
KwargsOver(names, vals) == UNION {[d -> vals] : d \in SUBSET names}

\* the names keyword arguments are drawn from: the fields and one other
KwNames == {"a", "b", "z"}

-----------------------------------------------------------------------------
(* SpecNew: construction of instances of A and of the fieldless            *)
(* Serializable from positional and named arguments.                       *)

NewVals == {PyInt(1), PyInt(2), PyList(<<PyInt(1)>>)}

InitNew ==
    /\ classes = ClassesAB
    /\ instances = NoInstances
    /\ heap = <<>>
    /\ threads = NoThreads
    /\ alloc = AllocIdle
    /\ result = NoResult

\* x = cls(args, kwargs)
New(cls, args, kwargs) ==
    /\ result.op = "none"
    /\ LET out == NewInstance(classes, heap, cls, args, kwargs)
       IN  /\ instances' = IF out.ok THEN [x |-> out.obj] ELSE instances
           /\ result' = [op |-> "new", cls |-> cls, args |-> args, kwargs |-> kwargs,
                         ok |-> out.ok,
                         error |-> IF out.ok THEN "" ELSE out.error,
                         before |-> instances]
    /\ UNCHANGED <<classes, heap, threads, alloc>>

\* A with every argument list; the fieldless Serializable, which accepts no
\* argument at all, with at most one positional and one named argument
NextNew ==
    \/ Discard
    \/ \E args \in SeqsUpTo(NewVals, MaxArgs), kwargs \in KwargsOver(KwNames, NewVals) :
          New(ClassA, args, kwargs)
    \/ \E args \in SeqsUpTo(NewVals, 1), kwargs \in KwargsOver({"z"}, NewVals) :
          New(SerializableId, args, kwargs)

SpecNew == InitNew /\ [][NextNew]_vars


\* the names of the fields the positional arguments of the last call reach
NewUsed == SetOf(Prefix(OrEmpty(classes[result.cls].meta.field_names), Len(result.args)))

\* a field reached by a position is also passed by name
NewDuplicate == NewUsed \cap DOMAIN result.kwargs # {}

\* a named argument is no field name
NewUnknown == DOMAIN result.kwargs \ SetOf(OrEmpty(classes[result.cls].meta.field_names)) # {}

\* a field has no value after merging
NewMissing ==
    (SetOf(OrEmpty(classes[result.cls].meta.field_names)) \ NewUsed) \ DOMAIN result.kwargs # {}

\* more positional arguments than fields
NewExcess == Len(result.args) > Len(OrEmpty(classes[result.cls].meta.field_names))

\* the value the new instance holds for field i of its class
NewExpected(i) ==
    LET name == classes[result.cls].meta.field_names.val[i]
    IN  make_immutable(heap, IF i <= Len(result.args) THEN result.args[i]
                             ELSE result.kwargs[name])

\* the call succeeded and stored one value per field_attr, in declaration
\* order: positions left to right, then the named values
NewStored ==
    /\ result.ok
    /\ instances.x.cls = result.cls
    /\ DOMAIN instances.x.dict = SetOf(OrEmpty(classes[result.cls].meta.field_attrs))
    /\ \A i \in 1..Len(OrEmpty(classes[result.cls].meta.field_attrs)) :
          instances.x.dict[classes[result.cls].meta.field_attrs.val[i]] = NewExpected(i)

\* the call failed and the caller holds what it held before
NewFailed(error) ==
    /\ ~result.ok
    /\ result.error = error
    /\ instances = result.before

\* C1 as stated: the duplicate error whenever a positional field is also
\* named, the unknown error whenever a named argument is no field, the
\* missing error whenever a field is left without a value, no instance in
\* any failing case, and success with the values stored in order otherwise.
C1_AsStated ==
    result.op = "new" =>
        /\ NewDuplicate => NewFailed("TypeError: Duplicate kwargs")
        /\ NewUnknown => NewFailed("TypeError: Unknown kwargs")
        /\ NewMissing => NewFailed("TypeError: Missing kwargs")
        /\ ~(NewDuplicate \/ NewUnknown \/ NewMissing) => NewStored

\* C1 (amended): construction reports the first that applies of the
\* duplicate, unknown and missing errors, in that order; with none of them
\* and more positional arguments than fields it fails with the argument
\* count mismatch error; every failure leaves no instance; otherwise it
\* succeeds and stores, per field_attr in declaration order, the immutable
\* form of the positional value of that position or else of the named value.
C1_Construct ==
    result.op = "new" =>
        IF NewDuplicate THEN NewFailed("TypeError: Duplicate kwargs")
        ELSE IF NewUnknown THEN NewFailed("TypeError: Unknown kwargs")
        ELSE IF NewMissing THEN NewFailed("TypeError: Missing kwargs")
        ELSE IF NewExcess THEN NewFailed("TypeError: Argument count mismatch")
        ELSE NewStored

\* A(v, b=w) with v # w succeeded while the caller held an earlier instance
C1_Witness ==
    /\ result.op = "new"
    /\ result.cls = ClassA
    /\ result.ok
    /\ Len(result.args) = 1
    /\ DOMAIN result.kwargs = {"b"}
    /\ result.args[1] # result.kwargs["b"]
    /\ "x" \in DOMAIN result.before

-----------------------------------------------------------------------------
(* SpecCopy: y = x.copy(args, kwargs) on instances x of A and of M.     *)

\* ==, on ints, lists and tuples: equal kinds and equal items
PyEq(v, w) == v = w

\* the instances of cls that construction yields from named values
InstancesOf(cls, vals) ==
    {NewInstance(ClassesABM, <<>>, cls, <<>>, kwargs).obj :
        kwargs \in [SetOf(ClassesABM[cls].meta.field_names.val) -> vals]}

InitCopy ==
    /\ classes = ClassesABM
    /\ instances \in {[x |-> obj] :
                        obj \in InstancesOf(ClassA, NewVals) \cup InstancesOf(ClassM, MVals)}
    /\ heap = <<>>
    /\ threads = NoThreads
    /\ alloc = AllocIdle
    /\ result = NoResult

\* y = x.copy(args, kwargs)
Copy(args, kwargs) ==
    /\ result.op = "none"
    /\ LET out == Copied(classes, heap, instances.x, args, kwargs)
       IN  /\ instances' =
                IF out.ok THEN [x |-> instances.x, y |-> out.obj] ELSE instances
           /\ result' = [op |-> "copy", args |-> args, kwargs |-> kwargs,
                         ok |-> out.ok,
                         error |-> IF out.ok THEN "" ELSE out.error,
                         before |-> instances]
    /\ UNCHANGED <<classes, heap, threads, alloc>>

\* the caller lets go of the copy (del y) and moves on
Release ==
    /\ result.op # "none"
    /\ instances' = [x |-> instances.x]
    /\ result' = NoResult
    /\ UNCHANGED <<classes, heap, threads, alloc>>

NextCopy ==
    \/ Release
    \/ \E args \in SeqsUpTo(NewVals, MaxArgs), kwargs \in KwargsOver(KwNames, NewVals) :
          Copy(args, kwargs)

SpecCopy == InitCopy /\ [][NextCopy]_vars

\* the last call was x.copy(fieldA=v) for one field fieldA of x
CopyOneNamed ==
    /\ result.op = "copy"
    /\ result.args = <<>>
    /\ Cardinality(DOMAIN result.kwargs) = 1
    /\ DOMAIN result.kwargs \subseteq SetOf(classes[instances.x.cls].meta.field_names.val)

\* the value y gives for a field name
FieldOf(obj, name) == GetAttr(classes, obj, name).val

\* the ordered field-value tuple of an instance: what its storage slots hold,
\* in the order of its type's field list
FieldTuple(obj) ==
    LET field_attrs == classes[obj.cls].meta.field_attrs.val
    IN  [i \in 1..Len(field_attrs) |-> obj.dict[field_attrs[i]]]

\* C3 as stated: x.copy(fieldA=v) returns a new instance y of x's type with
\* y.fieldA == v and every other field equal to x's, and x is as before.
C3_AsStated ==
    CopyOneNamed =>
        /\ result.ok
        /\ instances.y.cls = instances.x.cls
        /\ \A name \in SetOf(classes[instances.x.cls].meta.field_names.val) :
              IF name \in DOMAIN result.kwargs
              THEN PyEq(FieldOf(instances.y, name), result.kwargs[name])
              ELSE PyEq(FieldOf(instances.y, name), FieldOf(instances.x, name))
        /\ instances.x = result.before.x

\* the fields the positional overrides of the last copy reach
CopyUsed == SetOf(Prefix(classes[instances.x.cls].meta.field_names.val, Len(result.args)))

\* C4: copy merges its arguments by the rules of construction: a field
\* overridden by position and by name is the duplicate error, a named
\* argument that is no field is the unknown error, a field without an
\* override keeps the source's value, and no override value is dropped or
\* preferred silently.
C4_CopyMerge ==
    result.op = "copy" =>
        IF CopyUsed \cap DOMAIN result.kwargs # {}
        THEN ~result.ok /\ result.error = "TypeError: Duplicate kwargs"
        ELSE IF DOMAIN result.kwargs \ SetOf(classes[instances.x.cls].meta.field_names.val) # {}
        THEN ~result.ok /\ result.error = "TypeError: Unknown kwargs"
        ELSE /\ result.ok
             /\ \A i \in 1..Len(classes[instances.x.cls].meta.field_names.val) :
                  LET name == classes[instances.x.cls].meta.field_names.val[i]
                  IN  FieldOf(instances.y, name) =
                        IF i <= Len(result.args)
                        THEN make_immutable(heap, result.args[i])
                        ELSE IF name \in DOMAIN result.kwargs
                        THEN make_immutable(heap, result.kwargs[name])
                        ELSE FieldOf(result.before.x, name)

-----------------------------------------------------------------------------
(* SpecEq: hash, == and item access on two instances x and y of A, B, M.   *)

EqVals == {PyInt(-2), PyInt(-1), PyInt(1)}

PyStr(name) == [kind |-> "str", val |-> name]
PySlice(start, stop) == [kind |-> "slice", val |-> <<start, stop>>]

\* the indexes handed to __getitem__
IndexPool ==
    {PyInt(i) : i \in -3..2}
    \cup {PyStr(name) : name \in {"a", "b", "zz", "copy", "_a", "_meta", "_hash_cache",
                                       "__repr__"}}
    \cup {PySlice(0, 1), PySlice(1, 5)}
    \cup {PyNone}

InitEq ==
    /\ classes = ClassesABM
    /\ instances \in
        {[x |-> ox, y |-> oy] :
            ox \in InstancesOf(ClassA, EqVals) \cup InstancesOf(ClassM, MVals),
            oy \in InstancesOf(ClassA, EqVals) \cup InstancesOf(ClassB, EqVals)
                     \cup InstancesOf(ClassM, MVals)}
    /\ heap = <<>>
    /\ threads = NoThreads
    /\ alloc = AllocIdle
    /\ result = NoResult

\* hash(who)
Hash(who) ==
    /\ result.op = "none"
    /\ LET out == HashResult(classes, instances[who])
       IN  /\ instances' = [instances EXCEPT ![who] = out.obj]
           /\ result' = [op |-> "hash", who |-> who, ok |-> out.ok,
                         val |-> IF out.ok THEN out.val ELSE PyNone]
    /\ UNCHANGED <<classes, heap, threads, alloc>>

\* left == right
Eq(left, right) ==
    /\ result.op = "none"
    /\ LET out == EqResult(classes, instances[left], instances[right])
       IN  /\ instances' = [who \in DOMAIN instances |->
                              IF who = left THEN out.left
                              ELSE IF who = right THEN out.right
                              ELSE instances[who]]
           /\ result' = [op |-> "eq", left |-> left, right |-> right, ok |-> out.ok,
                         val |-> IF out.ok THEN out.val ELSE FALSE]
    /\ UNCHANGED <<classes, heap, threads, alloc>>

\* who[index]
Index(who, index) ==
    /\ result.op = "none"
    /\ LET out == GetItem(classes, instances[who], index)
       IN  result' = [op |-> "getitem", who |-> who, index |-> index, ok |-> out.ok,
                      val |-> IF out.ok THEN out.val ELSE PyNone,
                      error |-> IF out.ok THEN "" ELSE out.error]
    /\ UNCHANGED <<classes, instances, heap, threads, alloc>>

NextEq ==
    \/ Discard
    \/ \E who \in {"x", "y"} : Hash(who)
    \/ \E left \in {"x", "y"}, right \in {"x", "y"} : Eq(left, right)
    \/ \E who \in {"x", "y"}, index \in IndexPool : Index(who, index)

SpecEq == InitEq /\ [][NextEq]_vars

\* C2: a == b holds exactly when a and b are of the same record type and
\* their ordered field-value tuples are equal, and instances that compare
\* equal have equal hashes.
C2_StructuralEq ==
    result.op = "eq" =>
        /\ result.ok
        /\ result.val <=>
              /\ instances[result.left].cls = instances[result.right].cls
              /\ PyEq(PyTuple(FieldTuple(instances[result.left])),
                      PyTuple(FieldTuple(instances[result.right])))
        /\ result.val =>
              HashCache(instances[result.left]) = HashCache(instances[result.right])

\* C8: instance[name] returns the field's value when name is a field name and
\* fails with an access error for every other string, the names of other
\* members of the instance or its type included.
C8_GetItemByName ==
    (result.op = "getitem" /\ result.index.kind = "str") =>
        IF result.index.val \in SetOf(classes[instances[result.who].cls].meta.field_names.val)
        THEN /\ result.ok
             /\ result.val = FieldOf(instances[result.who], result.index.val)
        ELSE ~result.ok

-----------------------------------------------------------------------------
(* SpecHash: NumThreads threads call hash(x) on one instance x of A or M,   *)
(* each call a frame [pc, h, ret] stepping through __hash__:               *)
(*   "check"   if self._hash_cache is None                                 *)
(*   "compute" h = hash(tuple(self))                                       *)
(*   "write"   self._hash_cache = h                                        *)
(*   "return"  return self._hash_cache                                     *)
(* and ending at "done" (returned) or "raised" (hash(tuple(self)) raised). *)
(* The interpreter switches threads between any two of these.              *)

Threads == 1..NumThreads

\* the field values of the instance hashed: ints, and a tuple that holds a
\* list (which construction stores as it is and hash() rejects)
HashVals == EqVals \cup {PyTuple(<<PyInt(1), PyList(<<PyInt(2)>>)>>)}

IdleFrame == [pc |-> "idle", h |-> PyNone, ret |-> PyNone]

InitHash ==
    /\ classes = ClassesABM
    /\ instances \in {[x |-> obj] :
                        obj \in InstancesOf(ClassA, HashVals) \cup InstancesOf(ClassM, MVals)}
    /\ heap = <<>>
    /\ threads = [t \in Threads |-> IdleFrame]
    /\ alloc = AllocIdle
    /\ result = [op |-> "threads", before |-> instances]

\* thread t calls hash(x)
HashEnter(t) ==
    /\ threads[t].pc \in {"idle", "done", "raised"}
    /\ threads' = [threads EXCEPT ![t] = [pc |-> "check", h |-> PyNone, ret |-> PyNone]]
    /\ UNCHANGED <<classes, instances, heap, alloc, result>>

\* line 149
HashCheckStep(t) ==
    /\ threads[t].pc = "check"
    /\ threads' = [threads EXCEPT ![t].pc =
                     IF HashCache(instances.x) = PyNone THEN "compute" ELSE "return"]
    /\ UNCHANGED <<classes, instances, heap, alloc, result>>

\* line 150, right-hand side: the hash, or the exception of tuple(self) or
\* of hash() on an unhashable field value, which ends the call with nothing
\* written
HashComputeStep(t) ==
    /\ threads[t].pc = "compute"
    /\ threads' = IF HashOfSelf(classes, instances.x).kind \in {"TypeError", "AttributeError"}
                  THEN [threads EXCEPT ![t].pc = "raised"]
                  ELSE [threads EXCEPT ![t].h = HashOfSelf(classes, instances.x),
                                       ![t].pc = "write"]
    /\ UNCHANGED <<classes, instances, heap, alloc, result>>

\* line 150, the assignment
HashWriteStep(t) ==
    /\ threads[t].pc = "write"
    /\ instances' = [instances EXCEPT !.x = SetHashCache(instances.x, threads[t].h)]
    /\ threads' = [threads EXCEPT ![t].pc = "return"]
    /\ UNCHANGED <<classes, heap, alloc, result>>

\* line 152
HashReturnStep(t) ==
    /\ threads[t].pc = "return"
    /\ threads' = [threads EXCEPT ![t].ret = HashCache(instances.x), ![t].pc = "done"]
    /\ UNCHANGED <<classes, instances, heap, alloc, result>>

NextHash ==
    \E t \in Threads :
        \/ HashEnter(t)
        \/ HashCheckStep(t)
        \/ HashComputeStep(t)
        \/ HashWriteStep(t)
        \/ HashReturnStep(t)

SpecHash == InitHash /\ [][NextHash]_vars

\* C10: under every interleaving of the threads' steps each call of hash(x)
\* returns the hash of x's ordered field-value tuple (a call raises only when
\* that tuple has no hash), the memoized value once written is that hash and
\* so never changes, and the field values stay what they were when the
\* threads started.
C10_HashRace ==
    /\ \A t \in Threads :
          /\ threads[t].pc = "done" =>
                threads[t].ret = PyHash(PyTuple(FieldTuple(instances.x)))
          /\ threads[t].pc = "raised" =>
                PyHash(PyTuple(FieldTuple(instances.x))) = HashUnhashable
    /\ HashCache(instances.x) # PyNone =>
          HashCache(instances.x) = PyHash(PyTuple(FieldTuple(instances.x)))
    /\ FieldTuple(instances.x) = FieldTuple(result.before.x)

-----------------------------------------------------------------------------
(* SpecImm: the caller builds lists (heap objects), passes a value to      *)
(* A(a=value, b=0) and goes on appending to its lists.                     *)

\* the values the caller can build from its lists: an int, a list, a tuple
\* holding a list
CallerVals(h) ==
    {PyInt(1)} \cup {PyRef(a) : a \in 1..Len(h)} \cup {PyTuple(<<PyRef(a)>>) : a \in 1..Len(h)}

\* a value as the caller sees it now: every list object replaced by its
\* present items
RECURSIVE Deref(_, _)
Deref(h, value) ==
    IF value.kind = "ref"
    THEN PyList([i \in 1..Len(h[value.val]) |-> Deref(h, h[value.val][i])])
    ELSE IF value.kind \in {"list", "tuple"}
    THEN [kind |-> value.kind, val |-> [i \in 1..Len(value.val) |-> Deref(h, value.val[i])]]
    ELSE value

\* no list at any depth of the value
RECURSIVE IsImmutable(_)
IsImmutable(value) ==
    /\ value.kind \notin {"list", "ref"}
    /\ value.kind = "tuple" => \A i \in 1..Len(value.val) : IsImmutable(value.val[i])

InitImm ==
    /\ classes = ClassesAB
    /\ instances = NoInstances
    /\ heap = <<>>
    /\ threads = NoThreads
    /\ alloc = AllocIdle
    /\ result = NoResult

\* l = [items]
CallerList(items) ==
    /\ Len(heap) < MaxHeap
    /\ heap' = Append(heap, items)
    /\ UNCHANGED <<classes, instances, threads, alloc, result>>

\* l.append(2), on the list at addr
CallerAppend(addr) ==
    /\ Len(heap[addr]) < MaxLen
    /\ heap' = [heap EXCEPT ![addr] = Append(@, PyInt(2))]
    /\ UNCHANGED <<classes, instances, threads, alloc, result>>

\* x = A(a=value, b=0); the result records the field values as they are
\* right after construction
Construct(value) ==
    /\ "x" \notin DOMAIN instances
    /\ LET out == NewInstance(classes, heap, ClassA, <<>>, [a |-> value, b |-> PyInt(0)])
       IN  /\ instances' = [x |-> out.obj]
           /\ result' = [op |-> "new", value |-> value,
                         stored |-> Deref(heap, PyTuple(IterValues(classes, out.obj).val))]
    /\ UNCHANGED <<classes, heap, threads, alloc>>

NextImm ==
    \/ \E items \in SeqsUpTo(CallerVals(heap), MaxLen) : CallerList(items)
    \/ \E addr \in 1..Len(heap) : CallerAppend(addr)
    \/ \E value \in CallerVals(heap) : Construct(value)

SpecImm == InitImm /\ [][NextImm]_vars

\* C7: every stored field value is deeply immutable: no list is left at any
\* depth of it, inside a tuple included, and the caller's later changes to
\* the lists it passed never change the stored value.
C7_DeepImmutable ==
    "x" \in DOMAIN instances =>
        /\ \A i \in 1..Len(FieldTuple(instances.x)) :
              IsImmutable(FieldTuple(instances.x)[i])
        /\ Deref(heap, PyTuple(FieldTuple(instances.x))) = result.stored

====
